---- MODULE Spec2Model ----
(***************************************************************************)
(* School Management System API (src/main.py): registration, login,       *)
(* bearer-token identity resolution, role gating and the student,          *)
(* attendance and announcement handlers, over a document store.            *)
(*                                                                         *)
(* Each collection is a sequence of documents in insertion order;          *)
(* find_one returns the first matching document.  A document keeps the     *)
(* fields the handlers read or write; a student keeps one required field   *)
(* (first_name) and one optional field (grade) of CreateStudent, and       *)
(* updated_at.                                                             *)
(* Time is counted in minutes.  ObjectId strings are two hex digits wide   *)
(* here (24 in bson); parsing accepts either letter case, printing is      *)
(* lower case.                                                             *)
(***************************************************************************)
EXTENDS Integers, Sequences, FiniteSets, TLC

VARIABLES dbOK, user, student, attendance, announcement, nextOid,
          now, ticks, reg, issued, resp

vars == <<dbOK, user, student, attendance, announcement, nextOid,
          now, ticks, reg, issued, resp>>

stores == <<user, student, attendance, announcement, nextOid>>

----------------------------------------------------------------------------
(* Bounds of the model *)

MaxUsers == 2
MaxStudents == 2
MaxPosts == 1
MaxTicks == 1
MaxTokens == 1
MaxInserts == 2

----------------------------------------------------------------------------
(* Configuration and value domains *)

SECRET_KEY == "dev-secret-change-me"
OtherKey == "some-other-key"

ACCESS_TOKEN_EXPIRE_MINUTES == 60 * 12

Roles == {"admin", "teacher", "student", "parent"}

WriterRoles == {"admin", "teacher"}

None == "None"
NoEmail == ""

Emails == {"a@x.io", "b@x.io"}
Passwords == {"secret1", "secret2"}
Grades == {"7A"}

Procs == {1, 2}

----------------------------------------------------------------------------
(* bson.ObjectId: str() and ObjectId(str) *)

HexLower == <<"0", "1", "2", "3", "4", "5", "6", "7",
              "8", "9", "a", "b", "c", "d", "e", "f">>
HexUpper == <<"0", "1", "2", "3", "4", "5", "6", "7",
              "8", "9", "A", "B", "C", "D", "E", "F">>

OidSpace == Len(HexLower) * Len(HexLower)

IsHex(c) == \E i \in 1..Len(HexLower) : HexLower[i] = c \/ HexUpper[i] = c

HexVal(c) == (CHOOSE i \in 1..Len(HexLower) : HexLower[i] = c \/ HexUpper[i] = c) - 1

\* str(oid)
ObjectIdStr(n) == <<HexLower[(n \div Len(HexLower)) + 1], HexLower[(n % Len(HexLower)) + 1]>>

InvalidId == -1

\* ObjectId(s): the key, or InvalidId where bson raises InvalidId
ObjectId(s) ==
    IF Len(s) = Len(ObjectIdStr(0)) /\ \A i \in 1..Len(s) : IsHex(s[i])
    THEN HexVal(s[1]) * Len(HexLower) + HexVal(s[2])
    ELSE InvalidId

\* the first key the driver generates in a run; keys below it belong to
\* documents the store held before the process started
FirstOid == 11

SeedOid == FirstOid - 1

AbsentOid == OidSpace - 1

----------------------------------------------------------------------------
(* Store queries *)

\* collection.find_one({"_id": k}): position of the first match, 0 for None
FindOneById(coll, k) ==
    IF \E i \in 1..Len(coll) : coll[i]._id = k
    THEN CHOOSE i \in 1..Len(coll) :
            coll[i]._id = k /\ \A j \in 1..(i - 1) : coll[j]._id # k
    ELSE 0

\* collection.find_one({"email": e})
FindOneByEmail(coll, e) ==
    IF \E i \in 1..Len(coll) : coll[i].email = e
    THEN CHOOSE i \in 1..Len(coll) :
            coll[i].email = e /\ \A j \in 1..(i - 1) : coll[j].email # e
    ELSE 0

----------------------------------------------------------------------------
(* Passwords and tokens *)

get_password_hash(password) == [scheme |-> "bcrypt", of |-> password]

verify_password(plain_password, hashed_password) ==
    hashed_password = [scheme |-> "bcrypt", of |-> plain_password]

\* jwt.encode(data + exp, SECRET_KEY)
create_access_token(data) ==
    [sub |-> data.sub, email |-> data.email, role |-> data.role,
     exp |-> now + ACCESS_TOKEN_EXPIRE_MINUTES,
     key |-> SECRET_KEY, wellformed |-> TRUE]

\* jwt.decode(token, SECRET_KEY): the signature is verified before the claims
JwtDecode(token) ==
    IF ~token.wellformed THEN "JWTError"
    ELSE IF token.key # SECRET_KEY THEN "JWTError"
    ELSE IF token.exp < now THEN "ExpiredSignatureError"
    ELSE "payload"

----------------------------------------------------------------------------
(* Responses *)

\* lookup: the query get_current_user sent to the user collection for the
\* request ("_id", "email" or "none"); arg: the email a login submitted
Response(op, status, detail) ==
    [op |-> op, status |-> status, detail |-> detail, lookup |-> "none", arg |-> ""]

NoResponse == Response("none", 0, "")

----------------------------------------------------------------------------
(* Auth helper: get_current_user, the dependency every bearer endpoint     *)
(* resolves before its body runs.  idx is the position of the returned     *)
(* user in the user collection (0 when an HTTPException is raised);        *)
(* lookup names the find_one that was sent to the user collection.         *)

Unauthorized(detail, lookup) ==
    [status |-> 401, detail |-> detail, idx |-> 0, lookup |-> lookup]

Resolved(idx, lookup) ==
    IF idx = 0 THEN Unauthorized("User not found", lookup)
    ELSE [status |-> 200, detail |-> "", idx |-> idx, lookup |-> lookup]

get_current_user_FallbackOnMiss(token) ==
    IF JwtDecode(token) # "payload" THEN Unauthorized("Invalid token", "none")
    ELSE IF token.sub = <<>> THEN Unauthorized("Invalid token", "none")
    ELSE IF ~dbOK THEN Unauthorized("User not found", "none")
    ELSE IF ObjectId(token.sub) # InvalidId /\ FindOneById(user, ObjectId(token.sub)) # 0
         THEN Resolved(FindOneById(user, ObjectId(token.sub)), "_id")
    ELSE IF token.email # NoEmail
         THEN Resolved(FindOneByEmail(user, token.email), "email")
    ELSE Unauthorized("User not found", "none")

get_current_user(token) ==
    IF JwtDecode(token) # "payload" THEN Unauthorized("Invalid token", "none")
    ELSE IF token.sub = <<>> THEN Unauthorized("Invalid token", "none")
    ELSE IF ~dbOK THEN Unauthorized("User not found", "none")
    ELSE IF ObjectId(token.sub) # InvalidId
         THEN Resolved(FindOneById(user, ObjectId(token.sub)), "_id")
    ELSE IF token.email # NoEmail
         THEN Resolved(FindOneByEmail(user, token.email), "email")
    ELSE Unauthorized("User not found", "none")

\* the response of a bearer endpoint whose dependency or body answered
Answer(op, cur, status, detail) ==
    [Response(op, status, detail) EXCEPT !.lookup = cur.lookup]

\* the 401 raised by the dependency
Rejected(op, cur) == Answer(op, cur, 401, cur.detail)

RoleDenied_Blacklist(current) == current.role = "student"

\* current.get("role") not in ["admin", "teacher"], the check each writing
\* handler makes before it touches its collection
RoleDenied(current) == current.role \notin {"admin", "teacher"}

----------------------------------------------------------------------------
(* Tokens a client can present *)

Signed(sub, email, exp) ==
    [sub |-> sub, email |-> email, role |-> "admin", exp |-> exp,
     key |-> SECRET_KEY, wellformed |-> TRUE]

MalformedSub == <<"z", "z">>

UpperSub == <<HexUpper[(SeedOid \div Len(HexUpper)) + 1], HexUpper[(SeedOid % Len(HexUpper)) + 1]>>

ForgedSubs ==
    {<<>>, MalformedSub, UpperSub, ObjectIdStr(SeedOid), ObjectIdStr(AbsentOid)}

ForgedTokens ==
    {Signed(s, e, ACCESS_TOKEN_EXPIRE_MINUTES) : s \in ForgedSubs, e \in {NoEmail, "b@x.io"}}
    \cup {Signed(ObjectIdStr(SeedOid), NoEmail, 0),
          [Signed(ObjectIdStr(SeedOid), NoEmail, ACCESS_TOKEN_EXPIRE_MINUTES) EXCEPT !.key = OtherKey],
          [Signed(<<>>, NoEmail, 0) EXCEPT !.wellformed = FALSE]}

BearerTokens == issued \cup ForgedTokens

----------------------------------------------------------------------------
(* Initial state: the process starts with db either configured or None;   *)
(* a configured store may already hold a user document of the User schema. *)

SeedUser(active) ==
    [_id |-> SeedOid, email |-> "a@x.io", password_hash |-> get_password_hash("secret1"),
     role |-> "admin", is_active |-> active]

SeedStores == {<<>>} \cup {<<SeedUser(a)>> : a \in BOOLEAN}

IdleReg == [pc |-> "idle", email |-> NoEmail, password |-> "", role |-> ""]

Init ==
    /\ dbOK \in BOOLEAN
    /\ user \in (IF dbOK THEN SeedStores ELSE {<<>>})
    /\ student = <<>>
    /\ attendance = <<>>
    /\ announcement = <<>>
    /\ nextOid = FirstOid
    /\ now = 0
    /\ ticks = 0
    /\ reg = [p \in Procs |-> IdleReg]
    /\ issued = {}
    /\ resp = NoResponse

----------------------------------------------------------------------------
(* The clock *)

Tick(d) ==
    /\ ticks < MaxTicks
    /\ ticks' = ticks + 1
    /\ now' = now + d
    /\ UNCHANGED <<dbOK, stores, reg, issued, resp>>

----------------------------------------------------------------------------
(* POST /auth/register, in its two store round trips *)

InFlight == Cardinality({p \in Procs : reg[p].pc = "insert"})

\* find_one on the email; a hit or a missing db answers at once
RegisterFind(p, email, password, role) ==
    /\ reg[p].pc = "idle"
    /\ Len(user) + InFlight < MaxUsers
    /\ nextOid + InFlight < FirstOid + MaxInserts
    /\ IF ~dbOK
       THEN /\ resp' = Response("register", 500, "Database not configured")
            /\ UNCHANGED reg
       ELSE IF FindOneByEmail(user, email) # 0
       THEN /\ resp' = Response("register", 400, "Email already registered")
            /\ UNCHANGED reg
       ELSE /\ reg' = [reg EXCEPT ![p] = [pc |-> "insert", email |-> email,
                                           password |-> password, role |-> role]]
            /\ UNCHANGED resp
    /\ UNCHANGED <<dbOK, stores, now, ticks, issued>>

RegisterDoc(p) ==
    [_id |-> nextOid, email |-> reg[p].email,
     password_hash |-> get_password_hash(reg[p].password),
     role |-> reg[p].role, is_active |-> TRUE]

\* insert_one and the PublicUser response
RegisterInsert(p) ==
    /\ reg[p].pc = "insert"
    /\ user' = Append(user, RegisterDoc(p))
    /\ nextOid' = nextOid + 1
    /\ reg' = [reg EXCEPT ![p] = IdleReg]
    /\ resp' = Response("register", 200, "")
    /\ UNCHANGED <<dbOK, student, attendance, announcement, now, ticks, issued>>

----------------------------------------------------------------------------
(* POST /auth/login *)

LoginOutcome_Oracle(email, password) ==
    IF ~dbOK THEN Response("login", 500, "Database not configured")
    ELSE IF FindOneByEmail(user, email) = 0
         THEN Response("login", 400, "Email not registered")
    ELSE IF ~verify_password(password, user[FindOneByEmail(user, email)].password_hash)
         THEN Response("login", 400, "Incorrect email or password")
    ELSE Response("login", 200, "")

\* the response of login: both credential failures raise the same exception
LoginOutcome(email, password) ==
    IF ~dbOK THEN Response("login", 500, "Database not configured")
    ELSE IF FindOneByEmail(user, email) = 0
         THEN Response("login", 400, "Incorrect email or password")
    ELSE IF ~verify_password(password, user[FindOneByEmail(user, email)].password_hash)
         THEN Response("login", 400, "Incorrect email or password")
    ELSE Response("login", 200, "")

LoginToken_EmailAsSub(email) ==
    LET u == user[FindOneByEmail(user, email)]
    IN  create_access_token([sub |-> <<u.email>>, email |-> u.email, role |-> u.role])

\* create_access_token({"sub": str(user["_id"]), "email": ..., "role": ...})
LoginToken(email) ==
    LET u == user[FindOneByEmail(user, email)]
    IN  create_access_token([sub |-> ObjectIdStr(u._id), email |-> u.email, role |-> u.role])

Login(email, password) ==
    /\ resp' = [LoginOutcome(email, password) EXCEPT !.arg = email]
    /\ IF LoginOutcome(email, password).status = 200
       THEN /\ LoginToken(email) \in issued \/ Cardinality(issued) < MaxTokens
            /\ issued' = issued \cup {LoginToken(email)}
       ELSE UNCHANGED issued
    /\ UNCHANGED <<dbOK, stores, now, ticks, reg>>

----------------------------------------------------------------------------
(* GET /announcements: a read that needs only a resolved identity *)

ListAnnouncements(token) ==
    LET cur == get_current_user(token)
    IN  /\ resp' = IF cur.status # 200 THEN Rejected("list_announcements", cur)
                   ELSE IF ~dbOK
                   THEN Answer("list_announcements", cur, 500, "Database not configured")
                   ELSE Answer("list_announcements", cur, 200, "")
        /\ UNCHANGED <<dbOK, stores, now, ticks, reg, issued>>

----------------------------------------------------------------------------
(* Student endpoints *)

CanInsert == nextOid + InFlight < FirstOid + MaxInserts

\* student.model_dump() plus the timestamp
StudentDoc(data) ==
    [_id |-> nextOid, first_name |-> data.first_name, grade |-> data.grade,
     updated_at |-> now]

\* POST /students
CreateStudent(token, data) ==
    LET cur == get_current_user(token)
    IN  /\ IF cur.status # 200
           THEN /\ resp' = Rejected("create_student", cur)
                /\ UNCHANGED stores
           ELSE IF ~dbOK
           THEN /\ resp' = Answer("create_student", cur, 500, "Database not configured")
                /\ UNCHANGED stores
           ELSE IF RoleDenied(user[cur.idx])
           THEN /\ resp' = Answer("create_student", cur, 403, "Not authorized")
                /\ UNCHANGED stores
           ELSE /\ Len(student) < MaxStudents
                /\ CanInsert
                /\ student' = Append(student, StudentDoc(data))
                /\ nextOid' = nextOid + 1
                /\ resp' = Answer("create_student", cur, 200, "")
                /\ UNCHANGED <<user, attendance, announcement>>
        /\ UNCHANGED <<dbOK, now, ticks, reg, issued>>

GetStudentBody_NoParse(student_id) ==
    IF ObjectId(student_id) = InvalidId \/ FindOneById(student, ObjectId(student_id)) = 0
    THEN <<404, "Not found">>
    ELSE <<200, "">>

\* the body of get_student: parse the id, then find_one
GetStudentBody(student_id) ==
    IF ObjectId(student_id) = InvalidId THEN <<400, "Invalid ID">>
    ELSE IF FindOneById(student, ObjectId(student_id)) = 0 THEN <<404, "Not found">>
    ELSE <<200, "">>

\* GET /students/{student_id}
GetStudent(token, student_id) ==
    LET cur == get_current_user(token)
    IN  /\ resp' = IF cur.status # 200 THEN Rejected("get_student", cur)
                   ELSE IF ~dbOK
                   THEN Answer("get_student", cur, 500, "Database not configured")
                   ELSE Answer("get_student", cur, GetStudentBody(student_id)[1],
                               GetStudentBody(student_id)[2])
        /\ UNCHANGED <<dbOK, stores, now, ticks, reg, issued>>

UpdateData_KeepNulls(payload) == payload @@ [updated_at |-> now]

\* {k: v for k, v in payload.model_dump().items() if v is not None},
\* then data["updated_at"] = now
UpdateData(payload) ==
    [k \in {f \in DOMAIN payload : payload[f] # None} |-> payload[k]]
        @@ [updated_at |-> now]

\* {"$set": data} applied to one document
SetFields(doc, data) ==
    [k \in DOMAIN doc |-> IF k \in DOMAIN data THEN data[k] ELSE doc[k]]

\* update_one({"_id": oid}, {"$set": data}) on a collection
UpdateOne(coll, oid, data) ==
    IF FindOneById(coll, oid) = 0 THEN coll
    ELSE [coll EXCEPT ![FindOneById(coll, oid)] = SetFields(@, data)]

\* PUT /students/{student_id}
UpdateStudent(token, student_id, payload) ==
    LET cur == get_current_user(token)
    IN  /\ IF cur.status # 200
           THEN /\ resp' = Rejected("update_student", cur)
                /\ UNCHANGED stores
           ELSE IF ~dbOK
           THEN /\ resp' = Answer("update_student", cur, 500, "Database not configured")
                /\ UNCHANGED stores
           ELSE IF RoleDenied(user[cur.idx])
           THEN /\ resp' = Answer("update_student", cur, 403, "Not authorized")
                /\ UNCHANGED stores
           ELSE IF ObjectId(student_id) = InvalidId
           THEN /\ resp' = Answer("update_student", cur, 400, "Invalid ID")
                /\ UNCHANGED stores
           ELSE /\ student' = UpdateOne(student, ObjectId(student_id), UpdateData(payload))
                /\ resp' = IF FindOneById(student, ObjectId(student_id)) = 0
                           THEN Answer("update_student", cur, 404, "Not found")
                           ELSE Answer("update_student", cur, 200, "")
                /\ UNCHANGED <<user, attendance, announcement, nextOid>>
        /\ UNCHANGED <<dbOK, now, ticks, reg, issued>>

\* delete_one({"_id": oid}) on a collection
DeleteOne(coll, oid) ==
    IF FindOneById(coll, oid) = 0 THEN coll
    ELSE SubSeq(coll, 1, FindOneById(coll, oid) - 1)
            \o SubSeq(coll, FindOneById(coll, oid) + 1, Len(coll))

\* DELETE /students/{student_id}
DeleteStudent(token, student_id) ==
    LET cur == get_current_user(token)
    IN  /\ IF cur.status # 200
           THEN /\ resp' = Rejected("delete_student", cur)
                /\ UNCHANGED stores
           ELSE IF ~dbOK
           THEN /\ resp' = Answer("delete_student", cur, 500, "Database not configured")
                /\ UNCHANGED stores
           ELSE IF RoleDenied(user[cur.idx])
           THEN /\ resp' = Answer("delete_student", cur, 403, "Not authorized")
                /\ UNCHANGED stores
           ELSE IF ObjectId(student_id) = InvalidId
           THEN /\ resp' = Answer("delete_student", cur, 400, "Invalid ID")
                /\ UNCHANGED stores
           ELSE /\ student' = DeleteOne(student, ObjectId(student_id))
                /\ resp' = IF FindOneById(student, ObjectId(student_id)) = 0
                           THEN Answer("delete_student", cur, 404, "Not found")
                           ELSE Answer("delete_student", cur, 200, "")
                /\ UNCHANGED <<user, attendance, announcement, nextOid>>
        /\ UNCHANGED <<dbOK, now, ticks, reg, issued>>

----------------------------------------------------------------------------
(* Attendance and announcements *)

\* POST /attendance
TakeAttendance(token, payload) ==
    LET cur == get_current_user(token)
    IN  /\ IF cur.status # 200
           THEN /\ resp' = Rejected("take_attendance", cur)
                /\ UNCHANGED stores
           ELSE IF ~dbOK
           THEN /\ resp' = Answer("take_attendance", cur, 500, "Database not configured")
                /\ UNCHANGED stores
           ELSE IF RoleDenied(user[cur.idx])
           THEN /\ resp' = Answer("take_attendance", cur, 403, "Not authorized")
                /\ UNCHANGED stores
           ELSE /\ Len(attendance) < MaxPosts
                /\ CanInsert
                /\ attendance' = Append(attendance,
                      [_id |-> nextOid, class_id |-> payload.class_id,
                       date |-> payload.date,
                       taken_by |-> ObjectIdStr(user[cur.idx]._id),
                       records |-> payload.records, created_at |-> now])
                /\ nextOid' = nextOid + 1
                /\ resp' = Answer("take_attendance", cur, 200, "")
                /\ UNCHANGED <<user, student, announcement>>
        /\ UNCHANGED <<dbOK, now, ticks, reg, issued>>

\* POST /announcements
CreateAnnouncement(token, payload) ==
    LET cur == get_current_user(token)
    IN  /\ IF cur.status # 200
           THEN /\ resp' = Rejected("create_announcement", cur)
                /\ UNCHANGED stores
           ELSE IF ~dbOK
           THEN /\ resp' = Answer("create_announcement", cur, 500, "Database not configured")
                /\ UNCHANGED stores
           ELSE IF RoleDenied(user[cur.idx])
           THEN /\ resp' = Answer("create_announcement", cur, 403, "Not authorized")
                /\ UNCHANGED stores
           ELSE /\ Len(announcement) < MaxPosts
                /\ CanInsert
                /\ announcement' = Append(announcement,
                      [_id |-> nextOid, title |-> payload.title,
                       message |-> payload.message,
                       created_by |-> ObjectIdStr(user[cur.idx]._id),
                       created_at |-> now])
                /\ nextOid' = nextOid + 1
                /\ resp' = Answer("create_announcement", cur, 200, "")
                /\ UNCHANGED <<user, student, attendance>>
        /\ UNCHANGED <<dbOK, now, ticks, reg, issued>>

----------------------------------------------------------------------------
(* Request inputs *)

CreatePayloads == [first_name : {"Ann"}, grade : Grades \cup {None}]

UpdatePayloads == [first_name : {"Bo"}, grade : Grades \cup {None}]

StudentIds ==
    {MalformedSub, ObjectIdStr(AbsentOid)}
        \cup {ObjectIdStr(k) : k \in FirstOid..(FirstOid + MaxInserts - 1)}

AttendancePayload == [class_id |-> None, date |-> "2024-09-02", records |-> <<>>]

AnnouncementPayload == [title |-> "Notice", message |-> "Hello"]

----------------------------------------------------------------------------
(* Next-state relations.  NextAuth: registration, login and identity      *)
(* resolution while time passes.  NextGate: the role-gated writes.         *)
(* NextLookup: creating, reading and deleting student records.             *)
(* NextStudent: creating and updating them while time passes.              *)
(* Next: every operation.                                                  *)

Expiry == ACCESS_TOKEN_EXPIRE_MINUTES

NextAuth ==
    \/ \E d \in {Expiry, Expiry + 1} : Tick(d)
    \/ \E p \in Procs, e \in Emails, r \in {"teacher", "student"} :
          RegisterFind(p, e, "secret1", r)
    \/ \E p \in Procs : RegisterInsert(p)
    \/ \E e \in Emails, pw \in Passwords : Login(e, pw)
    \/ \E t \in BearerTokens : ListAnnouncements(t)

SpecAuth == Init /\ [][NextAuth]_vars

GateTokens ==
    {Signed(ObjectIdStr(k), NoEmail, Expiry) : k \in {SeedOid, FirstOid}}
        \cup {Signed(MalformedSub, NoEmail, Expiry)}

GateIds == {MalformedSub, ObjectIdStr(FirstOid), ObjectIdStr(FirstOid + 1)}

GatePayload == [first_name |-> "Ann", grade |-> None]

NextGate ==
    \/ \E r \in Roles : RegisterFind(1, "b@x.io", "secret1", r)
    \/ RegisterInsert(1)
    \/ \E t \in GateTokens : CreateStudent(t, GatePayload)
    \/ \E t \in GateTokens, id \in GateIds : UpdateStudent(t, id, GatePayload)
    \/ \E t \in GateTokens, id \in GateIds : DeleteStudent(t, id)
    \/ \E t \in GateTokens : TakeAttendance(t, AttendancePayload)
    \/ \E t \in GateTokens : CreateAnnouncement(t, AnnouncementPayload)

SpecGate == Init /\ [][NextGate]_vars

StudentTokens == {Signed(ObjectIdStr(k), NoEmail, Expiry) : k \in {SeedOid, FirstOid}}

NextLookup ==
    \/ RegisterFind(1, "b@x.io", "secret1", "student")
    \/ RegisterInsert(1)
    \/ \E t \in StudentTokens, d \in CreatePayloads : CreateStudent(t, d)
    \/ \E t \in StudentTokens, id \in StudentIds : GetStudent(t, id)
    \/ \E t \in StudentTokens, id \in StudentIds : DeleteStudent(t, id)

SpecLookup == Init /\ [][NextLookup]_vars

NextStudent ==
    \/ Tick(1)
    \/ RegisterFind(1, "b@x.io", "secret1", "student")
    \/ RegisterInsert(1)
    \/ \E t \in StudentTokens, d \in CreatePayloads : CreateStudent(t, d)
    \/ \E t \in StudentTokens, id \in StudentIds, d \in UpdatePayloads :
          UpdateStudent(t, id, d)

SpecStudent == Init /\ [][NextStudent]_vars

Next ==
    \/ \E d \in {1, Expiry, Expiry + 1} : Tick(d)
    \/ \E p \in Procs, e \in Emails, pw \in Passwords, r \in Roles :
          RegisterFind(p, e, pw, r)
    \/ \E p \in Procs : RegisterInsert(p)
    \/ \E e \in Emails, pw \in Passwords : Login(e, pw)
    \/ \E t \in BearerTokens : ListAnnouncements(t)
    \/ \E t \in BearerTokens, d \in CreatePayloads : CreateStudent(t, d)
    \/ \E t \in BearerTokens, id \in StudentIds : GetStudent(t, id)
    \/ \E t \in BearerTokens, id \in StudentIds, d \in UpdatePayloads :
          UpdateStudent(t, id, d)
    \/ \E t \in BearerTokens, id \in StudentIds : DeleteStudent(t, id)
    \/ \E t \in BearerTokens : TakeAttendance(t, AttendancePayload)
    \/ \E t \in BearerTokens : CreateAnnouncement(t, AnnouncementPayload)

Spec == Init /\ [][Next]_vars

----------------------------------------------------------------------------
(* Properties *)

WellFormedKey(s) == Len(s) = Len(ObjectIdStr(0)) /\ \A i \in 1..Len(s) : IsHex(s[i])

StoredKeys(coll) == {coll[i]._id : i \in 1..Len(coll)}

\* C1: for a request whose token resolves to a stored user, with the store
\* available, each of create_student, update_student, delete_student,
\* take_attendance and create_announcement answers 403 exactly when the
\* user's role is not admin or teacher, and a 403 leaves the student,
\* attendance and announcement collections unchanged.
C1_ForbiddenIffNotWriter ==
    [][/\ resp'.op = "create_student" =>
            \A t \in GateTokens :
               (dbOK /\ get_current_user(t).status = 200 /\ CreateStudent(t, GatePayload))
               => (resp'.status = 403
                      <=> user[get_current_user(t).idx].role \notin WriterRoles)
       /\ resp'.op = "update_student" =>
            \A t \in GateTokens, id \in GateIds :
               (dbOK /\ get_current_user(t).status = 200 /\ UpdateStudent(t, id, GatePayload))
               => (resp'.status = 403
                      <=> user[get_current_user(t).idx].role \notin WriterRoles)
       /\ resp'.op = "delete_student" =>
            \A t \in GateTokens, id \in GateIds :
               (dbOK /\ get_current_user(t).status = 200 /\ DeleteStudent(t, id))
               => (resp'.status = 403
                      <=> user[get_current_user(t).idx].role \notin WriterRoles)
       /\ resp'.op = "take_attendance" =>
            \A t \in GateTokens :
               (dbOK /\ get_current_user(t).status = 200
                  /\ TakeAttendance(t, AttendancePayload))
               => (resp'.status = 403
                      <=> user[get_current_user(t).idx].role \notin WriterRoles)
       /\ resp'.op = "create_announcement" =>
            \A t \in GateTokens :
               (dbOK /\ get_current_user(t).status = 200
                  /\ CreateAnnouncement(t, AnnouncementPayload))
               => (resp'.status = 403
                      <=> user[get_current_user(t).idx].role \notin WriterRoles)
       /\ resp'.status = 403
             => UNCHANGED <<student, attendance, announcement>>]_vars

\* a parent was refused a deletion after a student had been created
C1_Witness ==
    /\ resp.op = "delete_student" /\ resp.status = 403
    /\ student # <<>>
    /\ \E i \in 1..Len(user) : user[i].role = "parent"

\* C4: with db None, a correctly signed, unexpired token makes POST /students
\* answer 500, not 401.
C4_NoStoreAnswers500 ==
    [][(~dbOK /\ resp'.op = "create_student") =>
        (\A t \in GateTokens :
          (~dbOK /\ JwtDecode(t) = "payload" /\ CreateStudent(t, GatePayload))
          => resp'.status = 500)]_vars

\* C7: with a resolved identity of any role and the store available,
\* GET /students/{id} answers 400 exactly when the id is not a well-formed
\* key, 404 exactly when it is well-formed and no student has it, 200
\* otherwise, and the student collection is unchanged.
C7_GetStudentOutcome ==
    [][resp'.op = "get_student" =>
        (\A t \in StudentTokens, id \in StudentIds :
          (dbOK /\ get_current_user(t).status = 200 /\ GetStudent(t, id))
          => /\ resp'.status \in {200, 400, 404}
             /\ resp'.status = 400 <=> ~WellFormedKey(id)
             /\ resp'.status = 404
                   <=> (WellFormedKey(id) /\ ObjectId(id) \notin StoredKeys(student))
             /\ student' = student)]_vars

\* a student-role user asked for a well-formed id that is not stored while
\* another student is
C7_Witness ==
    /\ resp.op = "get_student" /\ resp.status = 404
    /\ student # <<>>

\* C8: a successful PUT /students/{id} by an admin or teacher keeps every
\* field whose payload value is null, sets every other payload field to the
\* payload value, sets updated_at to the current time and changes no other
\* record; any other outcome changes no student record.
C8_PartialUpdate ==
    [][/\ (resp'.op = "update_student" /\ resp'.status # 200)
             => (resp'.status \in {400, 401, 403, 404} /\ student' = student)
       /\ (resp'.op = "update_student" /\ resp'.status = 200)
             => \A t \in StudentTokens, id \in StudentIds, d \in UpdatePayloads :
                   UpdateStudent(t, id, d)
                   => /\ user[get_current_user(t).idx].role \in WriterRoles
                      /\ Len(student') = Len(student)
                      /\ \E i \in 1..Len(student) :
                            /\ student[i]._id = ObjectId(id)
                            /\ \A j \in 1..Len(student) :
                                  j # i => student'[j] = student[j]
                            /\ \A f \in DOMAIN d :
                                  student'[i][f] =
                                     IF d[f] # None THEN d[f] ELSE student[i][f]
                            /\ student'[i].updated_at = now
                            /\ student'[i].updated_at >= student[i].updated_at
                            /\ student'[i]._id = student[i]._id]_vars

\* an update was applied after the clock moved to a record created with a
\* grade: the name is replaced, the record carries the later time, and a
\* second record, created without a grade, is as it was created
C8_Witness ==
    /\ resp.op = "update_student" /\ resp.status = 200
    /\ Len(student) = 2
    /\ \E i, j \in 1..Len(student) :
          /\ student[i].first_name = "Bo" /\ student[i].grade = "7A"
          /\ student[i].updated_at > 0
          /\ student[j].first_name = "Ann" /\ student[j].grade = None
          /\ student[j].updated_at = 0

\* C2: get_current_user returns an identity only for a token whose signature
\* verifies, that has not expired, and that resolves to a stored user whose
\* active flag is set.
C2_ValidOnlyIfActive ==
    [][(resp'.op = "list_announcements" /\ resp'.status = 200) =>
        (\A t \in BearerTokens :
          (ListAnnouncements(t) /\ resp'.status = 200)
          => /\ t.wellformed /\ t.key = SECRET_KEY
             /\ t.exp >= now
             /\ get_current_user(t).idx # 0
             /\ user[get_current_user(t).idx].is_active)]_vars

\* C3: the user collection never holds two documents with the same email.
C3_EmailUnique ==
    \A i, j \in 1..Len(user) : i # j => user[i].email # user[j].email

\* C5: a correctly signed token that has expired is answered with an error
\* different from the one a token with an altered signature or a malformed
\* payload gets.
C5_ExpiredDistinctFromInvalid ==
    [][resp'.op = "list_announcements" =>
        (\A t1, t2 \in BearerTokens :
          (/\ JwtDecode(t1) = "ExpiredSignatureError"
           /\ JwtDecode(t2) = "JWTError"
           /\ ListAnnouncements(t1))
          => <<resp'.status, resp'.detail>>
                # <<get_current_user(t2).status, get_current_user(t2).detail>>)]_vars

UnknownEmail(e) == \A i \in 1..Len(user) : user[i].email # e

WrongPassword(e, pw) ==
    /\ ~UnknownEmail(e)
    /\ user[FindOneByEmail(user, e)].password_hash # get_password_hash(pw)

\* C6: a login with an unknown email and a login with a known email and a
\* wrong password get the same status and detail (400, "Incorrect email or
\* password"); neither issues a token nor changes the store.
C6_NoExistenceOracle ==
    [][resp'.op = "login" =>
        (\A e \in Emails, pw \in Passwords :
          (dbOK /\ Login(e, pw) /\ (UnknownEmail(e) \/ WrongPassword(e, pw)))
          => /\ resp'.status = 400
             /\ resp'.detail = "Incorrect email or password"
             /\ issued' = issued
             /\ UNCHANGED stores)]_vars

\* a login with the email of a user stored from the start was refused: the
\* known-email, wrong-password case
C6_Witness ==
    /\ user # <<>> /\ user[1]._id = SeedOid
    /\ resp.op = "login" /\ resp.status = 400
    /\ resp.arg = user[1].email

\* C9 as claimed: with the store available and a token that verifies and
\* carries a subject, the email lookup is performed exactly when the subject
\* is not a well-formed key, and a request that resolves no user answers
\* 401 "User not found".
C9_FallbackIffMalformed ==
    [][resp'.op = "list_announcements" =>
        (\A t \in BearerTokens :
          (dbOK /\ JwtDecode(t) = "payload" /\ t.sub # <<>> /\ ListAnnouncements(t))
          => /\ resp'.lookup = "email" <=> ~WellFormedKey(t.sub)
             /\ resp'.status # 200
                   => (resp'.status = 401 /\ resp'.detail = "User not found"))]_vars

\* C9 amended: with the store available and a token that verifies and
\* carries a non-empty subject, the user is looked up by key exactly when
\* the subject is a well-formed key, by email exactly when it is not and
\* the token carries an email claim; the request resolves a user exactly
\* when the lookup made finds one, and answers 401 "User not found"
\* otherwise.
C9_FallbackIffMalformedWithEmail ==
    [][resp'.op = "list_announcements" =>
        (\A t \in BearerTokens :
          (dbOK /\ JwtDecode(t) = "payload" /\ t.sub # <<>> /\ ListAnnouncements(t))
          => /\ resp'.lookup = "_id" <=> WellFormedKey(t.sub)
             /\ resp'.lookup = "email" <=> (~WellFormedKey(t.sub) /\ t.email # NoEmail)
             /\ resp'.status = 200
                   <=> \/ WellFormedKey(t.sub) /\ ObjectId(t.sub) \in StoredKeys(user)
                       \/ /\ ~WellFormedKey(t.sub) /\ t.email # NoEmail
                          /\ ~UnknownEmail(t.email)
             /\ resp'.status # 200
                   => (resp'.status = 401 /\ resp'.detail = "User not found"))]_vars

\* a token with a malformed subject was resolved through its email claim
C9_Witness ==
    /\ resp.op = "list_announcements" /\ resp.status = 200
    /\ resp.lookup = "email"

\* C10: every token login issued has a well-formed subject, so resolving it
\* never takes the email lookup; while it is unexpired it resolves to the
\* stored user with that key, whose email and role are the token's claims.
C10_IssuedTokenResolves ==
    \A t \in issued :
        /\ WellFormedKey(t.sub)
        /\ get_current_user(t).lookup # "email"
        /\ t.exp >= now
              => /\ get_current_user(t).status = 200
                 /\ user[get_current_user(t).idx]._id = ObjectId(t.sub)
                 /\ user[get_current_user(t).idx].email = t.email
                 /\ user[get_current_user(t).idx].role = t.role

\* login issued a token to a registered user, it is unexpired, and a bearer
\* request was resolved by key
C10_Witness ==
    /\ \E t \in issued : t.exp >= now /\ ObjectId(t.sub) # SeedOid
    /\ resp.op = "list_announcements" /\ resp.status = 200 /\ resp.lookup = "_id"
    /\ Len(user) = 2

====
